---- MODULE Spec2Model ----
(***************************************************************************)
(* The effects query builder of services/horizon/internal/db2/history     *)
(* (effect.go): EffectsQ with its filters ForAccount, ForLedger,           *)
(* ForOperation, ForLiquidityPool, ForTransaction, its pagination Page and *)
(* its execution Select, over a history_effects table.                     *)
(*                                                                         *)
(* Numbers are scaled: the 12-bit operation order, the 20-bit transaction  *)
(* order and math.MaxInt32 are small here (OperationMask, TransactionMask, *)
(* MaxInt32), so that the values at and beyond each maximum are states the *)
(* model checker holds.                                                    *)
(***************************************************************************)
EXTENDS Integers, Sequences, FiniteSets, TLC

VARIABLES
    effects,   \* the history_effects table: a set of rows [op, order, account]
    q,         \* q[b]: the EffectsQ value b points to: [Err, sql]
    pc,        \* pc[b]: "none" | "building" | "done" | "panicked"
    chain,     \* chain[b]: the calls made on b since Effects(), in order
    firstErr,  \* firstErr[b]: the error of the first call of chain[b] that failed
    nLookups,  \* nLookups[b]: storage lookups made by b's chained calls
    selects,   \* selects[b]: what storage returned to each execution of b's main query
    res,       \* res[b]: what the last Select on b returned
    ret,       \* ret[b]: the builder the last chained call on b returned (0: none yet)
    baseSql,   \* the package-level variable selectEffect every builder starts from
    sess,      \* the paging client's request: [filter, order, limit, start], and the
               \* rows of its earlier pass when it pages a second time (first)
    cursor,    \* the paging client's cursor (a paging token)
    acc,       \* the rows the paging client has received so far, in order
    ppc        \* the paging client's position

bvars == <<q, pc, chain, firstErr, nLookups, selects, res, ret, baseSql>>
pvars == <<sess, cursor, acc, ppc>>
vars == <<effects, q, pc, chain, firstErr, nLookups, selects, res, ret, baseSql,
          sess, cursor, acc, ppc>>

----------------------------------------------------------------------------
(* Bounds and scaled widths *)

\* the largest operation order a composite id holds (12 bits in toid, scaled)
OperationMask == 3
\* the largest transaction order a composite id holds (20 bits in toid, scaled)
TransactionMask == 3
\* math.MaxInt32, the largest value of the order column (scaled)
MaxInt32 == 3
\* the number of calls chained on one builder before Select
MaxChain == 2
\* the largest page size the paging client asks for
MaxLimit == 2

Builders == {1, 2}

nil == "nil"
NotFound == "NotFound"
StorageError == "StorageError"
MalformedCursor == "MalformedCursor"
InvalidOrder == "InvalidOrder"

----------------------------------------------------------------------------
(* Decimal formatting and parsing: fmt.Sprintf("%d"), strconv.ParseInt *)

Digits == <<"0", "1", "2", "3", "4", "5", "6", "7", "8", "9">>

DigitVal(c) == (CHOOSE i \in 1..10 : Digits[i] = c) - 1

IsDigit(c) == \E i \in 1..10 : Digits[i] = c

RECURSIVE FormatNat(_)
FormatNat(n) == IF n < 10 THEN <<Digits[n + 1]>>
                ELSE FormatNat(n \div 10) \o <<Digits[(n % 10) + 1]>>

\* %d of an integer
FormatInt(n) == IF n < 0 THEN <<"-">> \o FormatNat(0 - n) ELSE FormatNat(n)

RECURSIVE ParseNat(_, _)
ParseNat(s, accum) == IF s = <<>> THEN accum
                      ELSE ParseNat(Tail(s), accum * 10 + DigitVal(Head(s)))

\* an integer field of a cursor: [ok, v]
ParseInt(s) ==
    LET neg == s # <<>> /\ Head(s) = "-"
        body == IF neg THEN Tail(s) ELSE s
    IN  IF body = <<>> \/ \E i \in DOMAIN body : ~IsDigit(body[i])
        THEN [ok |-> FALSE, v |-> 0]
        ELSE [ok |-> TRUE, v |-> IF neg THEN 0 - ParseNat(body, 0) ELSE ParseNat(body, 0)]

\* strings.SplitN(s, sep, 2)
SplitN2(s, sep) ==
    IF \E i \in DOMAIN s : s[i] = sep
    THEN LET i == CHOOSE i \in DOMAIN s : s[i] = sep /\ \A j \in 1..(i - 1) : s[j] # sep
         IN  <<SubSeq(s, 1, i - 1), SubSeq(s, i + 1, Len(s))>>
    ELSE <<s>>

DefaultPairSep == "-"

\* db2.PageQuery.CursorInt64Pair: [l, r, err]
CursorInt64Pair(page, sep) ==
    LET parts == SplitN2(page.Cursor, sep)
    IN  IF Len(parts) # 2 THEN [l |-> 0, r |-> 0, err |-> MalformedCursor]
        ELSE LET l == ParseInt(parts[1])
                 r == ParseInt(parts[2])
             IN  IF l.ok /\ r.ok THEN [l |-> l.v, r |-> r.v, err |-> nil]
                 ELSE [l |-> 0, r |-> 0, err |-> MalformedCursor]

----------------------------------------------------------------------------
(* The composite id codec, package toid *)

OperationWidth == OperationMask + 1
TransactionWidth == TransactionMask + 1
LedgerWidth == TransactionWidth * OperationWidth

\* toid.Parse
Parse(id) == [LedgerSequence |-> id \div LedgerWidth,
              TransactionOrder |-> (id \div OperationWidth) % TransactionWidth,
              OperationOrder |-> id % OperationWidth]

\* toid.ID.ToInt64 panics on a field out of its range
ToInt64Panics(id) == \/ id.LedgerSequence < 0
                     \/ id.TransactionOrder > TransactionMask
                     \/ id.OperationOrder > OperationMask

\* toid.ID.ToInt64
ToInt64(id) == id.LedgerSequence * LedgerWidth
               + (id.TransactionOrder % TransactionWidth) * OperationWidth
               + (id.OperationOrder % OperationWidth)

\* toid.ID.IncOperationOrder: rolls over to the next ledger on overflow
IncOperationOrder(id) ==
    IF id.OperationOrder + 1 > OperationMask
    THEN [id EXCEPT !.OperationOrder = 0, !.LedgerSequence = id.LedgerSequence + 1]
    ELSE [id EXCEPT !.OperationOrder = id.OperationOrder + 1]

Key(l, t, o) == ToInt64([LedgerSequence |-> l, TransactionOrder |-> t, OperationOrder |-> o])

----------------------------------------------------------------------------
(* Storage: the tables the builder reads *)

Row(op, order, account) == [op |-> op, order |-> order, account |-> account]

opA == Key(1, 1, 1)
opB == Key(2, 1, 1)
opC == Key(2, 1, OperationMask)
opD == Key(2, 2, 1)
opE == Key(2, TransactionMask, 1)
opF == Key(3, 1, 1)

\* every row a table of the model may hold
AllRows == {Row(opA, 1, 1), Row(opA, 2, 2), Row(opB, 1, 1), Row(opC, 1, 2),
            Row(opD, 1, 1), Row(opD, 2, 1), Row(opE, 1, 2), Row(opF, MaxInt32, 1)}

SparseRows == {Row(opA, 2, 2), Row(opB, 1, 1), Row(opD, 2, 1), Row(opF, MaxInt32, 1)}

Tables == {AllRows, SparseRows}

\* history_accounts: address -> id
Accounts == {<<"GA", 1>>, <<"GB", 2>>}
\* history_ledgers: the sequences ingested
Ledgers == {1, 2, 3}
\* history_transactions: hash -> composite id
Transactions == {<<"h21", Key(2, 1, 0)>>, <<"h2max", Key(2, TransactionMask, 0)>>}
\* history_operation_liquidity_pools joined with history_liquidity_pools: pool, operation
PoolOperations == {<<"P1", opB>>, <<"P1", opD>>, <<"P1", opF>>}

\* Q.AccountByAddress: [err, ID]
AccountByAddress(aid) ==
    IF \E a \in Accounts : a[1] = aid
    THEN [err |-> nil, ID |-> (CHOOSE a \in Accounts : a[1] = aid)[2]]
    ELSE [err |-> NotFound, ID |-> 0]

\* Q.LedgerBySequence: the error
LedgerBySequence(seq) == IF seq \in Ledgers THEN nil ELSE NotFound

\* Q.TransactionByHash: [err, ID]
TransactionByHash(hash) ==
    IF \E t \in Transactions : t[1] = hash
    THEN [err |-> nil, ID |-> (CHOOSE t \in Transactions : t[1] = hash)[2]]
    ELSE [err |-> NotFound, ID |-> 0]

----------------------------------------------------------------------------
(* The query under construction and what the database makes of it *)

NoLimit == 0 - 1

\* the base query every builder starts from
selectEffect == [wheres |-> <<>>, orderBys |-> <<>>, limit |-> NoLimit]

\* a Where that replaces the predicates already there
WhereReplaces(sql, kind, args) == [sql EXCEPT !.wheres = <<[kind |-> kind, args |-> args]>>]

\* squirrel's Where: one more predicate, ANDed with the others
Where(sql, kind, args) == [sql EXCEPT !.wheres = Append(@, [kind |-> kind, args |-> args])]

\* squirrel's OrderBy: one more ordering term after those already there
OrderBy(sql, dir) == [sql EXCEPT !.orderBys = Append(@, dir)]

\* squirrel's Limit: the last limit set stands
Limit(sql, n) == [sql EXCEPT !.limit = n]

\* whether row r satisfies predicate w (the SQL text of each Where of effect.go)
Matches(w, r) ==
    CASE w.kind = "account_eq" -> r.account = w.args[1]
      [] w.kind = "op_range" -> r.op >= w.args[1] /\ r.op < w.args[2]
      [] w.kind = "op_in" -> \E i \in DOMAIN w.args : w.args[i] = r.op
      [] w.kind = "page_asc" ->
            r.op >= w.args[1]
            /\ (r.op > w.args[2] \/ (r.op = w.args[3] /\ r.order > w.args[4]))
      [] w.kind = "page_desc" ->
            r.op <= w.args[1]
            /\ (r.op < w.args[2] \/ (r.op = w.args[3] /\ r.order < w.args[4]))

\* the rows of table T a query selects
Selected(sql, T) == {r \in T : \A i \in DOMAIN sql.wheres : Matches(sql.wheres[i], r)}

\* (op, order) of a strictly before (op, order) of b
RowLess(a, b) == a.op < b.op \/ (a.op = b.op /\ a.order < b.order)

\* the rows of S under ORDER BY heff.history_operation_id dir, heff.order dir
RECURSIVE Sorted(_, _)
Sorted(S, dir) ==
    IF S = {} THEN <<>>
    ELSE LET first == IF dir = "asc"
                      THEN CHOOSE r \in S : \A x \in S \ {r} : RowLess(r, x)
                      ELSE CHOOSE r \in S : \A x \in S \ {r} : RowLess(x, r)
         IN  <<first>> \o Sorted(S \ {first}, dir)

SeqRange(s) == {s[i] : i \in DOMAIN s}

\* every result the database may return for a query: with an ORDER BY the one
\* sorted prefix; without, any LIMIT rows in an order SQL leaves unspecified
QueryResults(sql, T) ==
    LET M == Selected(sql, T)
        k == IF sql.limit = NoLimit \/ sql.limit > Cardinality(M)
             THEN Cardinality(M) ELSE sql.limit
    IN  IF sql.orderBys # <<>>
        THEN LET s == SubSeq(Sorted(M, sql.orderBys[1]), 1, k)
             IN  {[ordered |-> TRUE, seq |-> s, rows |-> SeqRange(s)]}
        ELSE {[ordered |-> FALSE, seq |-> <<>>, rows |-> S] :
                 S \in {S \in SUBSET M : Cardinality(S) = k}}

\* the nested lookup with > and < in place of >= and <=
PoolOperationIDsStrict(id, order, op, limit) ==
    LET ops == {po[2] : po \in {x \in PoolOperations : x[1] = id}}
        from == IF order = "asc" THEN {o \in ops : o > op} ELSE {o \in ops : o < op}
        rows == Sorted({Row(o, 0, 0) : o \in from}, order)
        k == IF limit > Len(rows) THEN Len(rows) ELSE limit
    IN  [i \in 1..k |-> rows[i].op]

\* the nested lookup of ForLiquidityPool: the pool's operation ids from op on,
\* in the paging direction, at most limit of them
PoolOperationIDs(id, order, op, limit) ==
    LET ops == {po[2] : po \in {x \in PoolOperations : x[1] = id}}
        from == IF order = "asc" THEN {o \in ops : o >= op} ELSE {o \in ops : o <= op}
        rows == Sorted({Row(o, 0, 0) : o \in from}, order)
        k == IF limit > Len(rows) THEN Len(rows) ELSE limit
    IN  [i \in 1..k |-> rows[i].op]

----------------------------------------------------------------------------
(* Effect methods *)

\* the widths of the two fields of Effect.ID: %019d and %010d
IdOperationWidth == 19
IdOrderWidth == 10

RECURSIVE ZeroPad(_, _)
ZeroPad(s, w) == IF Len(s) >= w THEN s ELSE ZeroPad(<<"0">> \o s, w)

\* %0wd of an integer: zeros up to width w, the sign counted in the width
FormatPadded(n, w) ==
    IF n < 0 THEN <<"-">> \o ZeroPad(FormatNat(0 - n), w - 1) ELSE ZeroPad(FormatNat(n), w)

\* an id with the %d-%d of the paging token in place of the padded fields
IDUnpadded(r) == FormatInt(r.op) \o <<"-">> \o FormatInt(r.order)

\* Effect.ID
ID(r) == FormatPadded(r.op, IdOperationWidth) \o <<"-">> \o FormatPadded(r.order, IdOrderWidth)

\* the byte of a character of an id: "-" sorts before every digit
CharCode(c) == IF c = "-" THEN 45 ELSE 48 + DigitVal(c)

\* Go's s < t on strings: byte by byte, a proper prefix first
RECURSIVE StrLess(_, _)
StrLess(s, t) ==
    IF t = <<>> THEN FALSE
    ELSE IF s = <<>> THEN TRUE
    ELSE IF Head(s) = Head(t) THEN StrLess(Tail(s), Tail(t))
    ELSE CharCode(Head(s)) < CharCode(Head(t))

\* a paging token with its two values the wrong way round
PagingTokenSwapped(r) == FormatInt(r.order) \o <<"-">> \o FormatInt(r.op)

\* Effect.PagingToken
PagingToken(r) == FormatInt(r.op) \o <<"-">> \o FormatInt(r.order)

----------------------------------------------------------------------------
(* The builder: Effects() and the calls chained on it *)

\* what one chained call did: the receiver's new value, the error the call
\* itself ran into (nil: none), its storage lookups, whether it panicked
Outcome(qv, fail, lookups, panics) ==
    [q |-> qv, fail |-> fail, lookups |-> lookups, panics |-> panics]

\* a chained call with a value receiver: it works on a copy of the builder,
\* and the builder it was called on stays as it was
ChainedOnCopy(b, call, out) ==
    /\ pc[b] = "building"
    /\ Len(chain[b]) < MaxChain
    /\ chain' = [chain EXCEPT ![b] = Append(@, call)]
    /\ firstErr' = [firstErr EXCEPT ![b] = IF @ = nil THEN out.fail ELSE @]
    /\ nLookups' = [nLookups EXCEPT ![b] = @ + out.lookups]
    /\ pc' = [pc EXCEPT ![b] = IF out.panics THEN "panicked" ELSE @]
    /\ ret' = [ret EXCEPT ![b] = 0]
    /\ UNCHANGED <<effects, q, selects, res, baseSql>>

\* a chained call that also stores the advanced query in the package-level
\* variable (selectEffect = selectEffect.Where(...))
ChainedOnBase(b, call, out) ==
    /\ pc[b] = "building"
    /\ Len(chain[b]) < MaxChain
    /\ q' = [q EXCEPT ![b] = out.q]
    /\ chain' = [chain EXCEPT ![b] = Append(@, call)]
    /\ firstErr' = [firstErr EXCEPT ![b] = IF @ = nil THEN out.fail ELSE @]
    /\ nLookups' = [nLookups EXCEPT ![b] = @ + out.lookups]
    /\ pc' = [pc EXCEPT ![b] = IF out.panics THEN "panicked" ELSE @]
    /\ ret' = [ret EXCEPT ![b] = IF out.panics THEN @ ELSE b]
    /\ baseSql' = out.q.sql
    /\ UNCHANGED <<effects, selects, res>>

\* a chained call on builder b takes effect: it assigns to the fields of the
\* builder it was called on and returns that builder
Chained(b, call, out) ==
    /\ pc[b] = "building"
    /\ Len(chain[b]) < MaxChain
    /\ q' = [q EXCEPT ![b] = out.q]
    /\ chain' = [chain EXCEPT ![b] = Append(@, call)]
    /\ firstErr' = [firstErr EXCEPT ![b] = IF @ = nil THEN out.fail ELSE @]
    /\ nLookups' = [nLookups EXCEPT ![b] = @ + out.lookups]
    /\ pc' = [pc EXCEPT ![b] = IF out.panics THEN "panicked" ELSE @]
    /\ ret' = [ret EXCEPT ![b] = IF out.panics THEN @ ELSE b]
    /\ UNCHANGED <<effects, selects, res, baseSql>>

NoResult == [err |-> nil, ordered |-> FALSE, seq |-> <<>>, rows |-> {}]

\* Q.Effects: a new builder over the base query
Effects(b) ==
    /\ pc[b] # "building"
    /\ q' = [q EXCEPT ![b] = [Err |-> nil, sql |-> baseSql]]
    /\ pc' = [pc EXCEPT ![b] = "building"]
    /\ chain' = [chain EXCEPT ![b] = <<>>]
    /\ firstErr' = [firstErr EXCEPT ![b] = nil]
    /\ nLookups' = [nLookups EXCEPT ![b] = 0]
    /\ selects' = [selects EXCEPT ![b] = <<>>]
    /\ res' = [res EXCEPT ![b] = NoResult]
    /\ ret' = [ret EXCEPT ![b] = 0]
    /\ UNCHANGED <<effects, baseSql>>

\* EffectsQ.ForAccount on receiver value qv
ForAccountOn(qv, aid) ==
    LET account == AccountByAddress(aid)
    IN  IF account.err # nil
        THEN Outcome([qv EXCEPT !.Err = account.err], account.err, 1, FALSE)
        ELSE Outcome([Err |-> nil, sql |-> Where(qv.sql, "account_eq", <<account.ID>>)],
                     nil, 1, FALSE)

ForAccount(b, aid) ==
    Chained(b, [op |-> "ForAccount", arg |-> aid], ForAccountOn(q[b], aid))

\* LedgerEnd that stops the range at the ledger's own first id
LedgerEndSameLedger(seq) ==
    [LedgerSequence |-> seq, TransactionOrder |-> 0, OperationOrder |-> 0]

\* the bounds of ForLedger's range
LedgerStart(seq) == [LedgerSequence |-> seq, TransactionOrder |-> 0, OperationOrder |-> 0]
LedgerEnd(seq) == [LedgerSequence |-> seq + 1, TransactionOrder |-> 0, OperationOrder |-> 0]

\* a Where on the half-open range [start, end) of composite ids; ToInt64 of
\* either bound may panic, before Where is reached
RangeOn(qv, start, end, lookups) ==
    IF ToInt64Panics(start) \/ ToInt64Panics(end)
    THEN Outcome(qv, nil, lookups, TRUE)
    ELSE Outcome([qv EXCEPT !.sql = Where(qv.sql, "op_range", <<ToInt64(start), ToInt64(end)>>)],
                 nil, lookups, FALSE)

\* EffectsQ.ForLedger on receiver value qv
ForLedgerOn(qv, seq) ==
    LET err == LedgerBySequence(seq)
    IN  IF err # nil
        THEN Outcome([qv EXCEPT !.Err = err], err, 1, FALSE)
        ELSE RangeOn([qv EXCEPT !.Err = nil], LedgerStart(seq), LedgerEnd(seq), 1)

ForLedger(b, seq) ==
    Chained(b, [op |-> "ForLedger", arg |-> seq], ForLedgerOn(q[b], seq))

\* EffectsQ.ForOperation on receiver value qv
ForOperationOn(qv, id) ==
    LET start == Parse(id)
        end == IncOperationOrder(start)
    IN  RangeOn(qv, start, end, 0)

ForOperation(b, id) ==
    Chained(b, [op |-> "ForOperation", arg |-> id], ForOperationOn(q[b], id))

\* the end of ForTransaction's range: end.TransactionOrder++
TransactionEnd(start) == [start EXCEPT !.TransactionOrder = start.TransactionOrder + 1]

\* EffectsQ.ForTransaction on receiver value qv
ForTransactionOn(qv, hash) ==
    LET tx == TransactionByHash(hash)
        start == Parse(tx.ID)
    IN  IF tx.err # nil
        THEN Outcome([qv EXCEPT !.Err = tx.err], tx.err, 1, FALSE)
        ELSE RangeOn([qv EXCEPT !.Err = nil], start, TransactionEnd(start), 1)

ForTransaction(b, hash) ==
    Chained(b, [op |-> "ForTransaction", arg |-> hash], ForTransactionOn(q[b], hash))

\* ForLiquidityPool whose switch on the order has no default case
ForLiquidityPoolOnNoDefault(qv, page, id, dbErr) ==
    LET c == CursorInt64Pair(page, DefaultPairSep)
    IN  IF qv.Err # nil THEN Outcome(qv, nil, 0, FALSE)
        ELSE IF c.err # nil THEN Outcome([qv EXCEPT !.Err = c.err], c.err, 0, FALSE)
        ELSE IF dbErr # nil THEN Outcome([qv EXCEPT !.Err = dbErr], dbErr, 1, FALSE)
        ELSE Outcome([qv EXCEPT !.sql = Where(qv.sql, "op_in",
                          PoolOperationIDs(id, page.Order, c.l, page.Limit))],
                     nil, 1, FALSE)

\* EffectsQ.ForLiquidityPool on receiver value qv; dbErr is what SelectRaw returns
ForLiquidityPoolOn(qv, page, id, dbErr) ==
    LET c == CursorInt64Pair(page, DefaultPairSep)
    IN  IF qv.Err # nil THEN Outcome(qv, nil, 0, FALSE)
        ELSE IF c.err # nil THEN Outcome([qv EXCEPT !.Err = c.err], c.err, 0, FALSE)
        ELSE IF page.Order \notin {"asc", "desc"}
        THEN Outcome([qv EXCEPT !.Err = InvalidOrder], InvalidOrder, 0, FALSE)
        ELSE IF dbErr # nil THEN Outcome([qv EXCEPT !.Err = dbErr], dbErr, 1, FALSE)
        ELSE Outcome([qv EXCEPT !.sql = Where(qv.sql, "op_in",
                          PoolOperationIDs(id, page.Order, c.l, page.Limit))],
                     nil, 1, FALSE)

ForLiquidityPool(b, page, id, dbErr) ==
    Chained(b, [op |-> "ForLiquidityPool", arg |-> <<page, id>>],
            ForLiquidityPoolOn(q[b], page, id, dbErr))

\* the cursor's second value passed on as it is, with no clamp
ClampIdxNone(idx) == idx

\* the clamp of the cursor's second value
ClampIdx(idx) == IF idx > MaxInt32 THEN MaxInt32 ELSE idx

\* PageClause with the leading inequality strict: the rest of the cursor's
\* own operation is left out
PageClauseStrictLead(sql, order, op, idx) ==
    CASE order = "asc" -> OrderBy(Where(sql, "page_asc", <<op + 1, op, op, idx>>), "asc")
      [] order = "desc" -> OrderBy(Where(sql, "page_desc", <<op - 1, op, op, idx>>), "desc")
      [] OTHER -> sql

\* PageClause with a tie-break that lets the cursor's own row through
PageClauseInclusive(sql, order, op, idx) ==
    CASE order = "asc" -> OrderBy(Where(sql, "page_asc", <<op, op, op, idx - 1>>), "asc")
      [] order = "desc" -> OrderBy(Where(sql, "page_desc", <<op, op, op, idx + 1>>), "desc")
      [] OTHER -> sql

\* PageClause whose desc case orders as the asc case does
PageClauseAscOnly(sql, order, op, idx) ==
    CASE order = "asc" -> OrderBy(Where(sql, "page_asc", <<op, op, op, idx>>), "asc")
      [] order = "desc" -> OrderBy(Where(sql, "page_desc", <<op, op, op, idx>>), "asc")
      [] OTHER -> sql

\* the predicate and ordering Page adds for a direction
PageClause(sql, order, op, idx) ==
    CASE order = "asc" -> OrderBy(Where(sql, "page_asc", <<op, op, op, idx>>), "asc")
      [] order = "desc" -> OrderBy(Where(sql, "page_desc", <<op, op, op, idx>>), "desc")
      [] OTHER -> sql

\* EffectsQ.Page on receiver value qv
PageOn(qv, page) ==
    LET c == CursorInt64Pair(page, DefaultPairSep)
    IN  IF qv.Err # nil THEN Outcome(qv, nil, 0, FALSE)
        ELSE IF c.err # nil THEN Outcome([qv EXCEPT !.Err = c.err], c.err, 0, FALSE)
        ELSE Outcome([qv EXCEPT !.sql =
                          Limit(PageClause(qv.sql, page.Order, c.l, ClampIdx(c.r)), page.Limit)],
                     nil, 0, FALSE)

Page(b, page) ==
    Chained(b, [op |-> "Page", arg |-> page], PageOn(q[b], page))

\* Select that never looks at the error the builder holds
SelectAlwaysRuns(qv) == FALSE

\* whether Select returns before reaching storage
SelectShortCircuits(qv) == qv.Err # nil

\* EffectsQ.Select; dbErr is what the storage call returns
Select(b, dbErr) ==
    /\ pc[b] = "building"
    /\ pc' = [pc EXCEPT ![b] = "done"]
    /\ UNCHANGED <<effects, chain, firstErr, nLookups, ret, baseSql>>
    /\ IF SelectShortCircuits(q[b])
       THEN /\ res' = [res EXCEPT ![b] = [NoResult EXCEPT !.err = q[b].Err]]
            /\ UNCHANGED <<q, selects>>
       ELSE /\ selects' = [selects EXCEPT ![b] = Append(@, dbErr)]
            /\ q' = [q EXCEPT ![b].Err = dbErr]
            /\ IF dbErr # nil
               THEN res' = [res EXCEPT ![b] = [NoResult EXCEPT !.err = dbErr]]
               ELSE \E r \in QueryResults(q[b].sql, effects) :
                        res' = [res EXCEPT ![b] = [err |-> nil, ordered |-> r.ordered,
                                                   seq |-> r.seq, rows |-> r.rows]]

----------------------------------------------------------------------------
(* The requests explored *)

Tok(op, idx) == FormatInt(op) \o <<"-">> \o FormatInt(idx)

PageQuery(c, o, l) == [Cursor |-> c, Order |-> o, Limit |-> l]

Pages == {PageQuery(Tok(0, 0), "asc", 1),
          PageQuery(Tok(opB, 1), "asc", 2),
          PageQuery(Tok(opF + 1, 0), "desc", 2),
          PageQuery(Tok(opD, MaxInt32 + 6), "desc", 1),
          PageQuery(Tok(opD, MaxInt32 + 1), "asc", 2),
          PageQuery(Tok(opD, 1), "desc", 2),
          PageQuery(Tok(opB, 1), "sideways", 2),
          PageQuery(FormatInt(opB), "asc", 2)}

Addresses == {"GA", "GX"}
LedgerSequences == {1, 2, 9}
OperationIDs == {opB, opC}
Hashes == {"h21", "h2max", "hx"}
\* the pool filters asked for, <<page, pool, what the nested lookup returns>>:
\* P1, a pool of the table, with every page; PX, a pool no operation touched,
\* with a first page; and a nested lookup that fails
PoolRequests ==
    {<<page, "P1", nil>> : page \in Pages}
        \cup {<<PageQuery(Tok(0, 0), "asc", 1), "PX", nil>>,
              <<PageQuery(Tok(0, 0), "asc", 1), "P1", StorageError>>}
DbOutcomes == {nil, StorageError}

Filter(kind, n, s) == [kind |-> kind, n |-> n, s |-> s]

\* the filters the paging client asks for
Filters == {Filter("none", 0, ""), Filter("ForLedger", 2, ""),
            Filter("ForOperation", opB, ""), Filter("ForOperation", opC, ""),
            Filter("ForTransaction", 0, "h21"), Filter("ForLiquidityPool", 0, "P1")}

\* the cursors the paging client starts from, per direction
StartCursors(order) == IF order = "asc" THEN {Tok(0, 0), Tok(opB, 1)}
                       ELSE {Tok(Key(4, 0, 0), 0), Tok(opD, 1)}

NoSession == [filter |-> Filter("none", 0, ""), order |-> "asc", limit |-> 1, start |-> <<>>,
              pass |-> 1, first |-> <<>>]

InitBuilders ==
    /\ q = [b \in Builders |-> [Err |-> nil, sql |-> selectEffect]]
    /\ pc = [b \in Builders |-> "none"]
    /\ chain = [b \in Builders |-> <<>>]
    /\ firstErr = [b \in Builders |-> nil]
    /\ nLookups = [b \in Builders |-> 0]
    /\ selects = [b \in Builders |-> <<>>]
    /\ res = [b \in Builders |-> NoResult]
    /\ ret = [b \in Builders |-> 0]
    /\ baseSql = selectEffect

InitClient ==
    /\ sess = NoSession
    /\ cursor = <<>>
    /\ acc = <<>>
    /\ ppc = "idle"

Init ==
    /\ effects \in Tables
    /\ InitBuilders
    /\ InitClient

(* One request: Effects(), any chain of at most MaxChain calls, Select *)

NewRequest == Effects(1) /\ UNCHANGED pvars

ChainForAccount == \E aid \in Addresses : ForAccount(1, aid) /\ UNCHANGED pvars

ChainForLedger == \E seq \in LedgerSequences : ForLedger(1, seq) /\ UNCHANGED pvars

ChainForOperation == \E id \in OperationIDs : ForOperation(1, id) /\ UNCHANGED pvars

ChainForTransaction == \E hash \in Hashes : ForTransaction(1, hash) /\ UNCHANGED pvars

ChainForLiquidityPool ==
    \E pr \in PoolRequests :
        ForLiquidityPool(1, pr[1], pr[2], pr[3]) /\ UNCHANGED pvars

ChainPage == \E page \in Pages : Page(1, page) /\ UNCHANGED pvars

Execute == \E dbErr \in DbOutcomes : Select(1, dbErr) /\ UNCHANGED pvars

Next ==
    \/ NewRequest
    \/ ChainForAccount
    \/ ChainForLedger
    \/ ChainForOperation
    \/ ChainForTransaction
    \/ ChainForLiquidityPool
    \/ ChainPage
    \/ Execute

Spec == Init /\ [][Next]_vars

----------------------------------------------------------------------------
(* A paging client: the same filter and direction page after page, each    *)
(* page's last paging token the next page's cursor, until a page is empty  *)

\* the tables the paging client reads: every subset of AllRows
InitPaging ==
    /\ effects \in SUBSET AllRows
    /\ InitBuilders
    /\ InitClient

CurrentPage == PageQuery(cursor, sess.order, sess.limit)

PagingStart ==
    /\ ppc = "idle"
    /\ \E f \in Filters, o \in {"asc", "desc"}, l \in 1..MaxLimit :
         \E c \in StartCursors(o) :
           /\ sess' = [filter |-> f, order |-> o, limit |-> l, start |-> c,
                       pass |-> 1, first |-> <<>>]
           /\ cursor' = c
    /\ acc' = <<>>
    /\ ppc' = "new"
    /\ UNCHANGED <<effects, bvars>>

PagingEffects ==
    /\ ppc = "new"
    /\ Effects(1)
    /\ ppc' = "filter"
    /\ UNCHANGED <<sess, cursor, acc>>

PagingFilter ==
    /\ ppc = "filter"
    /\ CASE sess.filter.kind = "none" -> UNCHANGED <<effects, bvars>>
         [] sess.filter.kind = "ForLedger" -> ForLedger(1, sess.filter.n)
         [] sess.filter.kind = "ForOperation" -> ForOperation(1, sess.filter.n)
         [] sess.filter.kind = "ForTransaction" -> ForTransaction(1, sess.filter.s)
         [] sess.filter.kind = "ForLiquidityPool" ->
                ForLiquidityPool(1, CurrentPage, sess.filter.s, nil)
    /\ ppc' = "page"
    /\ UNCHANGED <<sess, cursor, acc>>

PagingPage ==
    /\ ppc = "page"
    /\ Page(1, CurrentPage)
    /\ ppc' = "select"
    /\ UNCHANGED <<sess, cursor, acc>>

PagingSelect ==
    /\ ppc = "select"
    /\ Select(1, nil)
    /\ ppc' = "collect"
    /\ UNCHANGED <<sess, cursor, acc>>

\* the client takes the page: it stops at an empty page, and otherwise asks
\* for the next one from the last row's paging token
PagingCollect ==
    /\ ppc = "collect"
    /\ IF res[1].err # nil
       THEN ppc' = "failed" /\ UNCHANGED <<cursor, acc>>
       ELSE IF res[1].seq = <<>>
       THEN ppc' = "end" /\ UNCHANGED <<cursor, acc>>
       ELSE /\ acc' = acc \o res[1].seq
            /\ cursor' = PagingToken(res[1].seq[Len(res[1].seq)])
            /\ ppc' = "new"
    /\ UNCHANGED <<effects, bvars, sess>>

NextPaging ==
    \/ PagingStart
    \/ PagingEffects
    \/ PagingFilter
    \/ PagingPage
    \/ PagingSelect
    \/ PagingCollect

SpecPaging == InitPaging /\ [][NextPaging]_vars

(* The paging client paging a second time, the other way: once it has     *)
(* paged from one end of the table to exhaustion, it pages the same filter *)
(* from the other end in the other direction                               *)

\* the cursor before every row (asc) and the cursor after every row (desc)
EndCursor(order) == IF order = "asc" THEN Tok(0, 0) ELSE Tok(Key(4, 0, 0), 0)

Opposite(order) == IF order = "asc" THEN "desc" ELSE "asc"

PagingTurn ==
    /\ ppc = "end"
    /\ sess.pass = 1
    /\ sess.start = EndCursor(sess.order)
    /\ \E l \in 1..MaxLimit :
          sess' = [sess EXCEPT !.order = Opposite(@), !.limit = l,
                               !.start = EndCursor(Opposite(sess.order)),
                               !.pass = 2, !.first = acc]
    /\ cursor' = EndCursor(Opposite(sess.order))
    /\ acc' = <<>>
    /\ ppc' = "new"
    /\ UNCHANGED <<effects, bvars>>

NextSymmetry ==
    \/ PagingStart
    \/ PagingEffects
    \/ PagingFilter
    \/ PagingPage
    \/ PagingSelect
    \/ PagingCollect
    \/ PagingTurn

SpecSymmetry == InitPaging /\ [][NextSymmetry]_vars

----------------------------------------------------------------------------
(* Two requests at once: two builders from two Effects() calls on the same *)
(* parent Q, their calls interleaved in every way                          *)

InitTwo ==
    /\ effects = AllRows
    /\ InitBuilders
    /\ InitClient

\* the pages the two requests ask for: a first page, and a malformed cursor
TwoPages == {PageQuery(Tok(0, 0), "asc", 1), PageQuery(FormatInt(opB), "asc", 2)}

TwoEffects == \E b \in Builders : Effects(b) /\ UNCHANGED pvars

TwoForAccount == \E b \in Builders, aid \in Addresses : ForAccount(b, aid) /\ UNCHANGED pvars

TwoForOperation == \E b \in Builders : ForOperation(b, opB) /\ UNCHANGED pvars

TwoPage == \E b \in Builders, page \in TwoPages : Page(b, page) /\ UNCHANGED pvars

TwoSelect == \E b \in Builders, dbErr \in DbOutcomes : Select(b, dbErr) /\ UNCHANGED pvars

NextTwo ==
    \/ TwoEffects
    \/ TwoForAccount
    \/ TwoForOperation
    \/ TwoPage
    \/ TwoSelect

SpecTwo == InitTwo /\ [][NextTwo]_vars

----------------------------------------------------------------------------
(* Pagination *)

Fresh == [Err |-> nil, sql |-> selectEffect]

\* the query of a fresh builder with filter f alone
FilterSql(f) ==
    CASE f.kind = "none" -> selectEffect
      [] f.kind = "ForLedger" -> ForLedgerOn(Fresh, f.n).q.sql
      [] f.kind = "ForOperation" -> ForOperationOn(Fresh, f.n).q.sql
      [] f.kind = "ForTransaction" -> ForTransactionOn(Fresh, f.s).q.sql
      [] OTHER -> selectEffect

\* the (operationId, order) the client's first cursor stands for
StartRow ==
    LET c == CursorInt64Pair(PageQuery(sess.start, sess.order, sess.limit), DefaultPairSep)
    IN  Row(c.l, c.r, 0)

\* row r lies strictly beyond the client's first cursor, in its direction
BeyondStart(r) == IF sess.order = "asc" THEN RowLess(StartRow, r) ELSE RowLess(r, StartRow)

\* the filtered rows beyond the first cursor, in the client's direction
ExpectedRows ==
    Sorted({r \in Selected(FilterSql(sess.filter), effects) : BeyondStart(r)}, sess.order)

KeyRangeKinds == {"none", "ForLedger", "ForOperation", "ForTransaction"}

\* C1: with no filter or a key-range filter (ForLedger, ForOperation,
\* ForTransaction) and a fixed direction, the pages a client receives by
\* feeding each page's last paging token back as the next cursor are, one
\* after the other, the filtered rows in (operationId, order) order: at every
\* moment a prefix of them with nothing repeated or skipped, and all of them
\* once a page comes back empty, for every page size from 1 on.
C1_PagesCompleteNoOverlap ==
    (ppc # "idle" /\ sess.filter.kind \in KeyRangeKinds) =>
        /\ ppc # "failed"
        /\ Len(acc) <= Len(ExpectedRows)
        /\ acc = SubSeq(ExpectedRows, 1, Len(acc))
        /\ (ppc = "end" => acc = ExpectedRows)

\* C1's case: a ledger's rows paged backwards one row a page, to the end
C1_Witness ==
    /\ ppc = "end"
    /\ sess.filter.kind = "ForLedger"
    /\ sess.order = "desc"
    /\ sess.limit = 1
    /\ Len(acc) >= 4

----------------------------------------------------------------------------
(* Errors *)

BuildErrors == {NotFound, MalformedCursor, InvalidOrder}

\* C2: when a call of the chain failed (a failed resolution, a malformed
\* cursor, an invalid order), Select returns the error of the first call that
\* failed and the main query is never sent to storage, whatever was chained
\* after that call.
C2_FirstErrorWins ==
    (pc[1] = "done" /\ firstErr[1] \in BuildErrors) =>
        (res[1].err = firstErr[1] /\ selects[1] = <<>>)

\* a call is chained on builder 1 in this step
ChainedCall == pc[1] = "building" /\ Len(chain'[1]) = Len(chain[1]) + 1

\* C3: once the builder holds an error, a further chained call leaves the
\* error and the accumulated query as they are and makes no lookup.
C3_LatchedCallsAreNoOps ==
    [][(ChainedCall /\ q[1].Err # nil) =>
           (q'[1] = q[1] /\ nLookups'[1] = nLookups[1])]_vars

\* Select runs on builder 1 in this step
SelectCall == pc[1] = "building" /\ pc'[1] = "done"

\* C4: Select on a builder holding an error returns that error and makes no
\* storage call; Select on a builder holding none makes exactly one storage
\* call and returns what that call returned.
C4_SelectReturns ==
    [][SelectCall =>
           IF q[1].Err # nil
           THEN res'[1].err = q[1].Err /\ selects'[1] = selects[1]
           ELSE selects'[1] = Append(selects[1], res'[1].err)]_vars

\* C4's case: a Select that returned the latched error without a storage call
C4_Witness ==
    /\ pc[1] = "done"
    /\ Len(chain[1]) = 1
    /\ chain[1][1].op = "Page"
    /\ res[1].err = MalformedCursor
    /\ selects[1] = <<>>

\* the only call of builder 1's chain is Page with a well-formed cursor and a
\* direction that is neither asc nor desc
OnlySidewaysPage ==
    /\ Len(chain[1]) = 1
    /\ chain[1][1].op = "Page"
    /\ chain[1][1].arg.Order \notin {"asc", "desc"}
    /\ CursorInt64Pair(chain[1][1].arg, DefaultPairSep).err = nil

\* C5: Page with a direction that is neither asc nor desc and a well-formed
\* cursor latches InvalidOrder: the following Select returns InvalidOrder and
\* no query is executed.
C5_InvalidDirectionRejected ==
    OnlySidewaysPage =>
        /\ pc[1] = "building" => q[1].Err = InvalidOrder
        /\ pc[1] = "done" => (res[1].err = InvalidOrder /\ selects[1] = <<>>)

----------------------------------------------------------------------------
(* Predicates and ranges *)

\* the (operationId, order) pairs the predicates are probed with: every id
\* of ledgers 0 to 3 and the first of ledger 4, every order of the column
ProbeRows == {Row(o, n, 0) : o \in 0..Key(4, 0, 0), n \in 0..MaxInt32}

LastCall == chain[1][Len(chain[1])]

\* the last call chained on builder 1 was a Page, asc or desc, that took effect
PageApplied ==
    /\ chain[1] # <<>>
    /\ LastCall.op = "Page"
    /\ LastCall.arg.Order \in {"asc", "desc"}
    /\ pc[1] = "building"
    /\ q[1].Err = nil

\* the cursor of the last call, its second value clamped to the order column
ClampedCursor ==
    LET c == CursorInt64Pair(LastCall.arg, DefaultPairSep)
    IN  Row(c.l, IF c.r > MaxInt32 THEN MaxInt32 ELSE c.r, 0)

\* s is strictly sorted by (operationId, order) in direction dir
StrictlySorted(s, dir) ==
    \A i, j \in DOMAIN s :
        i < j => IF dir = "asc" THEN RowLess(s[i], s[j]) ELSE RowLess(s[j], s[i])

\* C6: the predicate Page adds holds of a row exactly when the row's
\* (operationId, order) is strictly greater (asc) or strictly less (desc)
\* than the cursor with its second value clamped, and the ordering Page adds
\* is that direction: a query that is one such Page returns its rows sorted
\* by (operationId, order) in it.
C6_KeysetPredicate ==
    /\ PageApplied =>
         LET w == q[1].sql.wheres[Len(q[1].sql.wheres)]
         IN  /\ \A r \in ProbeRows :
                    Matches(w, r) <=> IF LastCall.arg.Order = "asc"
                                      THEN RowLess(ClampedCursor, r)
                                      ELSE RowLess(r, ClampedCursor)
             /\ q[1].sql.orderBys # <<>>
             /\ q[1].sql.orderBys[Len(q[1].sql.orderBys)] = LastCall.arg.Order
    /\ (/\ pc[1] = "done"
        /\ Len(chain[1]) = 1
        /\ LastCall.op = "Page"
        /\ LastCall.arg.Order \in {"asc", "desc"}
        /\ selects[1] = <<nil>>) =>
         (res[1].ordered /\ StrictlySorted(res[1].seq, LastCall.arg.Order))

\* C6's case: a desc Page whose cursor's second value is clamped, and whose
\* predicate lets the rows below the cursor through
C6_Witness ==
    /\ PageApplied
    /\ Len(chain[1]) = 1
    /\ LastCall.arg.Order = "desc"
    /\ CursorInt64Pair(LastCall.arg, DefaultPairSep).r > MaxInt32
    /\ \E r \in effects : r.op = ClampedCursor.op /\ Matches(q[1].sql.wheres[1], r)

\* the only call of builder 1's chain is op
OnlyCall(op) == Len(chain[1]) = 1 /\ chain[1][1].op = op

\* the effects of the operations that touched pool, beyond the first cursor
ExpectedPoolRows ==
    Sorted({r \in effects : <<sess.filter.s, r.op>> \in PoolOperations /\ BeyondStart(r)},
           sess.order)

\* C7: with ForLiquidityPool(page, pool) and Page(page) on every page, the
\* pages a client receives are the effects of the operations that touched
\* the pool, in order, none skipped or repeated, and a page is empty only
\* when none remains, for every page size from 1 on.
C7_PoolPagesComplete ==
    (ppc # "idle" /\ sess.filter.kind = "ForLiquidityPool") =>
        /\ ppc # "failed"
        /\ Len(acc) <= Len(ExpectedPoolRows)
        /\ acc = SubSeq(ExpectedPoolRows, 1, Len(acc))
        /\ (ppc = "end" => acc = ExpectedPoolRows)

C9_SingleOperation ==
    OnlyCall("ForOperation") =>
        /\ pc[1] # "panicked"
        /\ (pc[1] = "done" /\ res[1].err = nil) =>
               res[1].rows = {r \in effects : r.op = chain[1][1].arg}

\* C10: ForTransaction(hash), once hash resolves to t, completes and selects
\* exactly the effects of the operations of transaction t, also for a
\* transaction whose transaction order is the largest.
C10_TransactionRange ==
    (OnlyCall("ForTransaction") /\ TransactionByHash(chain[1][1].arg).err = nil) =>
        LET t == Parse(TransactionByHash(chain[1][1].arg).ID)
        IN  /\ pc[1] # "panicked"
            /\ (pc[1] = "done" /\ res[1].err = nil) =>
                   res[1].rows =
                       {r \in effects :
                           /\ Parse(r.op).LedgerSequence = t.LedgerSequence
                           /\ Parse(r.op).TransactionOrder = t.TransactionOrder}

----------------------------------------------------------------------------
(* Cursor clamping *)

\* the call chained on builder 1 in this step
NewCall == chain'[1][Len(chain'[1])]

\* page with its cursor's second value replaced by idx
WithMinor(page, idx) ==
    [page EXCEPT !.Cursor = Tok(CursorInt64Pair(page, DefaultPairSep).l, idx)]

\* C11: Page on an error-free builder accepts a well-formed cursor whose
\* second value exceeds math.MaxInt32 without an error, and leaves the
\* builder exactly as the same Page with the second value math.MaxInt32
\* does; a second value of at most math.MaxInt32 goes into the predicate
\* as it is.
C11_CursorClamped ==
    [][(/\ ChainedCall
        /\ q[1].Err = nil
        /\ NewCall.op = "Page"
        /\ CursorInt64Pair(NewCall.arg, DefaultPairSep).err = nil) =>
           LET c == CursorInt64Pair(NewCall.arg, DefaultPairSep)
               ws == q'[1].sql.wheres
           IN  /\ q'[1].Err = nil
               /\ pc'[1] = "building"
               /\ c.r > MaxInt32 => q'[1] = PageOn(q[1], WithMinor(NewCall.arg, MaxInt32)).q
               /\ (c.r <= MaxInt32 /\ NewCall.arg.Order \in {"asc", "desc"}) =>
                      ws[Len(ws)].args = <<c.l, c.l, c.l, c.r>>]_vars

\* C11's case: an asc Page whose cursor's second value is beyond
\* math.MaxInt32 took effect, and its predicate holds math.MaxInt32
C11_Witness ==
    /\ PageApplied
    /\ LastCall.arg.Order = "asc"
    /\ CursorInt64Pair(LastCall.arg, DefaultPairSep).r > MaxInt32
    /\ q[1].sql.wheres[Len(q[1].sql.wheres)].args[4] = MaxInt32

----------------------------------------------------------------------------
(* Filter composition *)

FilterOps == {"ForAccount", "ForLedger", "ForOperation", "ForTransaction"}

\* the filter call applied to receiver value qv
ApplyFilter(qv, call) ==
    CASE call.op = "ForAccount" -> ForAccountOn(qv, call.arg)
      [] call.op = "ForLedger" -> ForLedgerOn(qv, call.arg)
      [] call.op = "ForOperation" -> ForOperationOn(qv, call.arg)
      [] call.op = "ForTransaction" -> ForTransactionOn(qv, call.arg)

\* the receiver value after the filter calls of sequence calls, one after the other
RECURSIVE ApplyAll(_, _)
ApplyAll(qv, calls) ==
    IF calls = <<>> THEN qv ELSE ApplyAll(ApplyFilter(qv, Head(calls)).q, Tail(calls))

\* the orders in which n calls can be made
Orders(n) == {p \in [1..n -> 1..n] : \A i, j \in 1..n : p[i] = p[j] => i = j}

\* rows of every operation id and account the filters tell apart
FilterProbeRows == {Row(o, 1, a) : o \in 0..Key(4, 0, 0), a \in {1, 2}}

\* C12: when every call of a chain of filters (ForAccount, ForLedger,
\* ForOperation, ForTransaction) on a fresh builder succeeded, the same calls
\* made on a fresh builder in any other order give a query that selects the
\* same rows: those every one of the filters alone selects.
C12_FiltersCommute ==
    (/\ pc[1] = "building"
     /\ Len(chain[1]) >= 2
     /\ \A i \in DOMAIN chain[1] : chain[1][i].op \in FilterOps
     /\ firstErr[1] = nil) =>
        /\ q[1].Err = nil
        /\ \A p \in Orders(Len(chain[1])) :
              LET other == ApplyAll(Fresh, [i \in DOMAIN chain[1] |-> chain[1][p[i]]])
              IN  /\ other.Err = nil
                  /\ Selected(other.sql, FilterProbeRows \cup effects) =
                        Selected(q[1].sql, FilterProbeRows \cup effects)
        /\ Selected(q[1].sql, FilterProbeRows \cup effects) =
              {r \in FilterProbeRows \cup effects :
                  \A i \in DOMAIN chain[1] :
                      r \in Selected(ApplyFilter(Fresh, chain[1][i]).q.sql, {r})}

\* C12's case: an account filter and a ledger filter chained, each of which
\* alone selects rows the two together do not
C12_Witness ==
    /\ pc[1] = "building"
    /\ Len(chain[1]) = 2
    /\ chain[1][1].op = "ForAccount"
    /\ chain[1][2].op = "ForLedger"
    /\ q[1].Err = nil
    /\ Selected(q[1].sql, effects) # {}
    /\ \A i \in 1..2 :
          Selected(ApplyFilter(Fresh, chain[1][i]).q.sql, effects) # Selected(q[1].sql, effects)

----------------------------------------------------------------------------
(* Direction symmetry *)

Reverse(s) == [i \in 1..Len(s) |-> s[Len(s) + 1 - i]]

\* the client has paged one way from one end to exhaustion and then the
\* other way from the other end to exhaustion
BothWaysDone == ppc = "end" /\ sess.pass = 2

\* C13: over one table and one filter, the rows paged from one end to
\* exhaustion are, reversed, the rows paged the other way from the other end
\* to exhaustion.
C13_DirectionSymmetry == BothWaysDone => acc = Reverse(sess.first)

\* direction symmetry with no filter or a key-range filter
C13_KeyRangeSymmetry ==
    (BothWaysDone /\ sess.filter.kind \in KeyRangeKinds) => acc = Reverse(sess.first)

----------------------------------------------------------------------------
(* Cursor round trip *)

\* what Page makes of cursor text c: the decoded pair, the second value clamped
PageDecoded(c) ==
    LET d == CursorInt64Pair(PageQuery(c, "asc", 1), DefaultPairSep)
    IN  [err |-> d.err, op |-> d.l, idx |-> ClampIdx(d.r)]

RoundTrips(r) ==
    PageDecoded(PagingToken(r)) = [err |-> nil, op |-> r.op, idx |-> r.order]

\* C14: the paging token of a record with operationId >= 0 and order in
\* 0..math.MaxInt32, decoded as Page decodes a cursor (split at "-", two
\* integers, the second clamped), is the record's (operationId, order); so
\* the predicate Page builds from the last row received carries that row's
\* two values.
C14_CursorRoundTrip ==
    /\ ppc = "idle" => \A r \in ProbeRows : RoundTrips(r)
    /\ acc # <<>> =>
          /\ cursor = PagingToken(acc[Len(acc)])
          /\ RoundTrips(acc[Len(acc)])
    /\ (acc # <<>> /\ ppc = "select" /\ q[1].Err = nil) =>
          LET r == acc[Len(acc)]
              ws == q[1].sql.wheres
          IN  ws[Len(ws)].args = <<r.op, r.op, r.op, r.order>>

\* C14's case: Page has decoded the token of a row received, a row whose
\* order is math.MaxInt32 and whose operation id has two digits
C14_Witness ==
    /\ ppc = "select"
    /\ acc # <<>>
    /\ acc[Len(acc)] = Row(opF, MaxInt32, 1)
    /\ Len(PagingToken(acc[Len(acc)])) >= 4
    /\ q[1].sql.wheres[Len(q[1].sql.wheres)].args = <<opF, opF, opF, MaxInt32>>

----------------------------------------------------------------------------
(* Lexical order of ids *)

\* records whose two values have one, two and three digits; only the number
\* of digits matters to ID, so the orders here are not held to MaxInt32
IdProbeRows == {Row(o, n, 0) : o \in {0, 2, 9, 10, 19, 100}, n \in {0, 1, 9, 10, 11}}

\* ID(r) is 19 digits, "-", 10 digits, and the digits are r's two values
PaddedFields(r) ==
    /\ Len(ID(r)) = IdOperationWidth + 1 + IdOrderWidth
    /\ ID(r)[IdOperationWidth + 1] = "-"
    /\ ParseInt(SubSeq(ID(r), 1, IdOperationWidth)) = [ok |-> TRUE, v |-> r.op]
    /\ ParseInt(SubSeq(ID(r), IdOperationWidth + 2, Len(ID(r)))) = [ok |-> TRUE, v |-> r.order]
    /\ \A i \in 1..IdOperationWidth : IsDigit(ID(r)[i])

\* on the records of S, the order of the ids as strings is the order of the pairs
IdOrderIsPairOrder(S) ==
    \A a, b \in S : StrLess(ID(a), ID(b)) <=> RowLess(a, b)

\* C15: for records with non-negative operationId and order, ID(a) is less
\* than ID(b) as a string exactly when (a.operationId, a.order) is less than
\* (b.operationId, b.order), and ID is the operationId padded to 19 digits,
\* "-", and the order padded to 10 digits; so the ids of the rows a query
\* returns sort as the rows do.
C15_LexicalIdOrder ==
    /\ pc[1] = "none" =>
          /\ IdOrderIsPairOrder(IdProbeRows)
          /\ \A r \in IdProbeRows \cup effects : PaddedFields(r)
    /\ pc[1] = "done" => IdOrderIsPairOrder(res[1].rows)

\* C15's case: a query returned two rows of one operation and a row of a
\* later one, and their ids are in that order
C15_Witness ==
    /\ pc[1] = "done"
    /\ \E a, b, c \in res[1].rows :
          /\ a.op = b.op /\ a.order < b.order /\ b.op < c.op
          /\ StrLess(ID(a), ID(b)) /\ StrLess(ID(b), ID(c))

----------------------------------------------------------------------------
(* The liquidity-pool filter *)

\* C16: ForLiquidityPool on an error-free builder, with a well-formed cursor
\* and a direction that is neither asc nor desc, leaves the builder holding
\* InvalidOrder, makes no storage lookup and leaves the accumulated query as
\* it was.
C16_PoolInvalidDirection ==
    [][(/\ ChainedCall
        /\ q[1].Err = nil
        /\ NewCall.op = "ForLiquidityPool"
        /\ CursorInt64Pair(NewCall.arg[1], DefaultPairSep).err = nil
        /\ NewCall.arg[1].Order \notin {"asc", "desc"}) =>
           /\ q'[1].Err = InvalidOrder
           /\ q'[1].sql = q[1].sql
           /\ nLookups'[1] = nLookups[1]
           /\ pc'[1] = "building"]_vars

\* C16's case: a sideways ForLiquidityPool chained after a filter that had
\* added its predicate
C16_Witness ==
    /\ pc[1] = "building"
    /\ Len(chain[1]) = 2
    /\ chain[1][1].op = "ForOperation"
    /\ chain[1][2].op = "ForLiquidityPool"
    /\ chain[1][2].arg[1].Order = "sideways"
    /\ q[1].Err = InvalidOrder
    /\ firstErr[1] = InvalidOrder
    /\ Len(q[1].sql.wheres) = 1
    /\ nLookups[1] = 0

----------------------------------------------------------------------------
(* The receiver of a chained call *)

\* the call applied to receiver value qv; dbErr is what its nested lookup returns
ApplyCall(qv, call, dbErr) ==
    CASE call.op \in FilterOps -> ApplyFilter(qv, call)
      [] call.op = "Page" -> PageOn(qv, call.arg)
      [] call.op = "ForLiquidityPool" -> ForLiquidityPoolOn(qv, call.arg[1], call.arg[2], dbErr)

\* a call is chained on builder 1, which holds no error, and returns
CallOnNonFailed == ChainedCall /\ q[1].Err = nil /\ pc'[1] = "building"

\* C17 as claimed: a filter or Page called on a builder in the non-failed
\* state leaves the receiver's accumulated query and error field as they
\* were and returns another builder.
C17_ReceiverUnchanged ==
    [][CallOnNonFailed => (q'[1] = q[1] /\ ret'[1] # 1)]_vars

\* C17, amended: a filter or Page called on a builder in the non-failed state
\* returns the builder it was called on, and that builder then holds what
\* the call made: its query with the call's predicate, ordering and limit
\* added, or the call's error. Only a Page with a direction that is neither
\* asc nor desc can leave it as it was.
C17_ReceiverModifiedInPlace ==
    [][CallOnNonFailed =>
         /\ ret'[1] = 1
         /\ \E dbErr \in DbOutcomes : q'[1] = ApplyCall(q[1], NewCall, dbErr).q
         /\ ~(NewCall.op = "Page" /\ NewCall.arg.Order \notin {"asc", "desc"}) => q'[1] # q[1]]_vars

\* C17's case: ForOperation was called on a fresh builder, and the builder
\* itself now holds the range
C17_Witness ==
    /\ pc[1] = "building"
    /\ OnlyCall("ForOperation")
    /\ ret[1] = 1
    /\ q[1] # Fresh
    /\ Len(q[1].sql.wheres) = 1

----------------------------------------------------------------------------
(* The shape of a page *)

\* builder 1's chain ended with a Page, asc or desc, and the query was executed
PagedAndExecuted ==
    /\ pc[1] = "done"
    /\ chain[1] # <<>>
    /\ LastCall.op = "Page"
    /\ LastCall.arg.Order \in {"asc", "desc"}
    /\ selects[1] = <<nil>>

\* the calls of builder 1's chain before the last one added no ordering
NoEarlierOrdering ==
    \A i \in 1..(Len(chain[1]) - 1) :
        ~(chain[1][i].op = "Page" /\ chain[1][i].arg.Order \in {"asc", "desc"})

\* the result is the first rows, at most n, of the matching rows sorted in
\* direction dir: strictly sorted, and none skipped before the first
FirstRowsSorted(n, dir) ==
    LET all == Sorted(Selected(q[1].sql, effects), dir)
    IN  /\ res[1].ordered
        /\ Len(res[1].seq) <= n
        /\ StrictlySorted(res[1].seq, dir)
        /\ res[1].seq = SubSeq(all, 1, Len(res[1].seq))
        /\ (Len(res[1].seq) = n \/ Len(res[1].seq) = Len(all))

\* C18 as claimed: after Page with direction asc or desc and limit n on an
\* error-free builder, the result of Select has at most n records and is
\* strictly sorted by (operationId, order) in the requested direction.
C18_PageShape ==
    PagedAndExecuted =>
        /\ res[1].ordered
        /\ Len(res[1].seq) <= LastCall.arg.Limit
        /\ StrictlySorted(res[1].seq, LastCall.arg.Order)

\* C18, amended: after Page with direction asc or desc and limit n on an
\* error-free builder, the result of Select has at most n records, starts at
\* the first matching row (no offset) and is strictly sorted by
\* (operationId, order) in the direction of the first ordering the builder
\* was given: the requested direction when no earlier Page of the chain
\* added an ordering.
C18_PageShapeFirstOrdering ==
    PagedAndExecuted =>
        /\ FirstRowsSorted(LastCall.arg.Limit, q[1].sql.orderBys[1])
        /\ NoEarlierOrdering => q[1].sql.orderBys = <<LastCall.arg.Order>>

\* C18's case: a desc Page after a filter, executed, with more matching rows
\* than the limit
C18_Witness ==
    /\ PagedAndExecuted
    /\ Len(chain[1]) = 2
    /\ chain[1][1].op \in FilterOps
    /\ LastCall.arg.Order = "desc"
    /\ Len(res[1].seq) = LastCall.arg.Limit
    /\ Cardinality(Selected(q[1].sql, effects)) > LastCall.arg.Limit

----------------------------------------------------------------------------
(* Membership in the liquidity-pool filter *)

\* the first call of builder 1's chain was a ForLiquidityPool that succeeded
\* (only ForLiquidityPool adds a membership predicate)
PoolFilterFirst ==
    /\ chain[1] # <<>>
    /\ chain[1][1].op = "ForLiquidityPool"
    /\ q[1].sql.wheres # <<>>
    /\ q[1].sql.wheres[1].kind = "op_in"

\* the operations that touched pool, from major on in direction order
PoolOpsFrom(pool, order, major) ==
    {o \in {po[2] : po \in {x \in PoolOperations : x[1] = pool}} :
        IF order = "asc" THEN o >= major ELSE o <= major}

\* of those, the n closest to major
ClosestPoolOps(pool, order, major, n) ==
    LET from == PoolOpsFrom(pool, order, major)
    IN  {o \in from :
            Cardinality({x \in from : IF order = "asc" THEN x <= o ELSE x >= o}) <= n}

\* the closest pool operations for the first call of builder 1's chain
FirstCallPoolOps ==
    LET page == chain[1][1].arg[1]
    IN  ClosestPoolOps(chain[1][1].arg[2], page.Order,
                       CursorInt64Pair(page, DefaultPairSep).l, page.Limit)

\* C19: when ForLiquidityPool(page, pool) succeeds, the ids its nested lookup
\* returned are the at most page.Limit operations that touched the pool
\* closest to the cursor's first value in the paging direction (>= it for
\* asc, <= it for desc), every row the query then returns is of one of these
\* operations, and the query returns no row when there is none.
C19_PoolMembership ==
    PoolFilterFirst =>
        LET ids == q[1].sql.wheres[1].args
        IN  /\ SeqRange(ids) = FirstCallPoolOps
            /\ Len(ids) = Cardinality(FirstCallPoolOps)
            /\ Len(ids) <= chain[1][1].arg[1].Limit
            /\ \A r \in Selected(q[1].sql, FilterProbeRows \cup effects) : r.op \in FirstCallPoolOps
            /\ (pc[1] = "done" /\ res[1].err = nil) =>
                  /\ \A r \in res[1].rows : r.op \in FirstCallPoolOps
                  /\ FirstCallPoolOps = {} => res[1].rows = {}

\* C19's case: the pool filter kept the nearest page.Limit of the pool's
\* operations, fewer than touched the pool, and the query returned their rows
C19_Witness ==
    /\ PoolFilterFirst
    /\ pc[1] = "done"
    /\ res[1].err = nil
    /\ res[1].rows # {}
    /\ FirstCallPoolOps # PoolOpsFrom(chain[1][1].arg[2], chain[1][1].arg[1].Order,
                                       CursorInt64Pair(chain[1][1].arg[1], DefaultPairSep).l)

\* a pool no operation touched: the query returns nothing
C19_EmptySet ==
    /\ PoolFilterFirst
    /\ pc[1] = "done"
    /\ res[1].err = nil
    /\ FirstCallPoolOps = {}
    /\ effects # {}

----------------------------------------------------------------------------
(* Two builders *)

\* the receiver value after the calls of sequence calls on a fresh builder's value qv
RECURSIVE ApplyCalls(_, _)
ApplyCalls(qv, calls) ==
    IF calls = <<>> THEN qv ELSE ApplyCalls(ApplyCall(qv, Head(calls), nil).q, Tail(calls))

\* no call is made on builder b in this step
Idle(b) == chain'[b] = chain[b] /\ pc'[b] = pc[b]

\* C20: of two builders obtained from separate Effects() calls on the same
\* parent, with their calls interleaved in any way, a call on one (a filter,
\* a Page, a Select, a failing one too) leaves the other's query, error
\* field and result as they were, so that each builder holds what its own
\* calls made of a fresh builder; and the base query selectEffect that
\* Effects() hands out is never changed.
C20_BuildersIsolated ==
    [][/\ \A b \in Builders :
             Idle(b) => (q'[b] = q[b] /\ res'[b] = res[b] /\ firstErr'[b] = firstErr[b])
       /\ \A b \in Builders :
             pc'[b] = "building" => q'[b] = ApplyCalls(Fresh, chain'[b])
       /\ baseSql' = baseSql
       /\ baseSql = selectEffect]_vars

\* C20's case: both builders are being built at once, one has failed and
\* the other holds a predicate and no error
C20_Witness ==
    /\ pc[1] = "building"
    /\ pc[2] = "building"
    /\ q[1].Err # nil
    /\ q[2].Err = nil
    /\ q[2].sql.wheres # <<>>
    /\ Len(chain[1]) = MaxChain
    /\ baseSql = selectEffect

====
